---- MODULE Spec2Model ----
(***************************************************************************)
(* A model of ballcosmos/script/api_shared.py: the check / wait /          *)
(* wait_check entry points, their argument resolvers, and the two poll     *)
(* loops (_cosmos_script_wait_implementation and                           *)
(* cosmos_script_wait_implementation_expression).                          *)
(*                                                                         *)
(* One behaviour is one call of one public entry point.  Init draws the    *)
(* call (entry point, argument count, argument values); the actions are    *)
(* the handlers of the source.  A handler that neither sleeps nor loops is *)
(* one action; a poll loop is two actions per iteration (the work from     *)
(* work_start to the computation of sleep_time, then the sleep).           *)
(*                                                                         *)
(* Time.  `now` is what time.time() returns, in ticks of 0.25 s (so that   *)
(* DEFAULT_TLM_POLLING_RATE is one tick).  The clock advances only while   *)
(* the value provider is sampled and the expression evaluated (by a cost   *)
(* the environment chooses in 0..MaxCost) and while time.sleep runs (by    *)
(* exactly the requested duration); the statements between two             *)
(* time.time() reads take no time, and the clock never runs backwards.     *)
(*                                                                         *)
(* Values.  The value provider returns a scalar under Spec, and a list for  *)
(* the array items of VectorSpec, where the list branches of the tolerance *)
(* handlers are entered.  A polling rate is at least one tick, so that     *)
(* every pass of a loop that does not end it advances the clock.           *)
(***************************************************************************)
EXTENDS Integers, Sequences, FiniteSets, TLC

\* ---------------------------------------------------------------- bounds
MaxTimeout == 3
MaxPollingRate == 2
MaxCost == 2
MaxValue == 2
MaxLiteral == 1
MaxTolerance == 1
MaxArgs == 8
MaxPackets == 1
MaxLen == 2

\* ------------------------------------------------------ program constants
\* DEFAULT_TLM_POLLING_RATE = 0.25 s, one tick
DEFAULT_TLM_POLLING_RATE == 1

\* write_tlm_viewer: max_retries = 60
max_retries == 60

\* cosmos_script_sleep(1) in write_tlm_viewer and start_tlm_viewer: one second,
\* in ticks
OneSecond == 4

\* ------------------------------------------------------------ entry points
CheckFns == {"check", "check_formatted", "check_with_units", "check_raw"}
CheckToleranceFns == {"check_tolerance", "check_tolerance_raw"}
WaitFns == {"wait", "wait_raw"}
WaitToleranceFns == {"wait_tolerance", "wait_tolerance_raw"}
WaitCheckFns == {"wait_check", "wait_check_raw"}
WaitCheckToleranceFns == {"wait_check_tolerance", "wait_check_tolerance_raw"}
PacketFns == {"wait_packet", "wait_check_packet"}
ExpressionFns == {"check_expression", "wait_expression", "wait_check_expression"}
ViewerFns == {"display", "clear", "clear_all"}

\* ------------------------------------------------------------------ values
\* What the value provider returns for a scalar item.
Values == 0..MaxValue

\* None, and a float result, as the caller receives them.
None == << >>
Float(x) == << x >>

Abs(x) == IF x < 0 THEN -x ELSE x
Min(a, b) == IF a < b THEN a ELSE b
Max(a, b) == IF a > b THEN a ELSE b

\* A comparison_to_eval text: an operator and a literal, the empty text, a
\* text that Python cannot evaluate against any value (op = "bad"), or the
\* text "** -1 >= 1", which Python cannot evaluate against the value 0
\* (ZeroDivisionError) and can against the others.
EmptyComparison == [op |-> "", lit |-> 0]
BadComparison == [op |-> "bad", lit |-> 0]
InverseComparison == [op |-> "** -1 >=", lit |-> 1]
GoodComparisons == [op : {">=", "=="}, lit : 1..MaxLiteral]
Comparisons ==
  GoodComparisons \cup {EmptyComparison, BadComparison, InverseComparison}

\* eval("value " + comparison_to_eval) raises
EvalRaises(cmp, v) ==
  \/ cmp.op = "bad"
  \/ cmp.op = "** -1 >=" /\ v = 0

\* eval("value " + comparison_to_eval), taken as a condition.  The empty text
\* leaves the expression "value ", whose truth is that of the value itself.
EvalComparison(cmp, v) ==
  CASE cmp.op = ">=" -> v >= cmp.lit
    [] cmp.op = "==" -> v = cmp.lit
    [] cmp.op = ""   -> v # 0
    [] cmp.op = "** -1 >=" -> v # 0 /\ cmp.lit * v <= 1
    [] OTHER         -> FALSE

\* "{:g}".format(x) read back by eval: x rounded to 6 significant digits
\* (round-half-even on the decimal digits); exact below 10^6.
RECURSIVE Pow10(_)
Pow10(n) == IF n = 0 THEN 1 ELSE 10 * Pow10(n - 1)

RECURSIVE Digits(_)
Digits(x) == IF x < 10 THEN 1 ELSE 1 + Digits(x \div 10)

FormatG(x) ==
  LET a == Abs(x)
      k == Digits(a) - 6
      unit == Pow10(k)
      q == a \div unit
      r == a % unit
      up == (2 * r > unit) \/ (2 * r = unit /\ q % 2 = 1)
      rounded == (IF up THEN q + 1 ELSE q) * unit
  IN IF k <= 0 THEN x
     ELSE IF x < 0 THEN -rounded ELSE rounded

\* ------------------------------------------------------------------- calls
\* One call of a public entry point.  nargs is len(args) for the entry points
\* that take *args, and the number of positional arguments for the others.
\* A field the call shape does not carry has its default here and is not read.
\* expected_is_list and tolerance_is_list are isinstance(argument, list), and
\* the argument is then in expected_list / tolerance_list; value_is_list says
\* that the item is an array item, for which the provider returns a list of
\* array_size elements.
Call(fn, nargs, cmp, expected, tolerance, tmo, rate, num_packets, numeric) ==
  [fn |-> fn, nargs |-> nargs, cmp |-> cmp, expected |-> expected,
   tolerance |-> tolerance, timeout |-> tmo, rate |-> rate,
   num_packets |-> num_packets, numeric |-> numeric,
   expected_is_list |-> FALSE, expected_list |-> << >>,
   tolerance_is_list |-> FALSE, tolerance_list |-> << >>,
   value_is_list |-> FALSE, array_size |-> 0]

ArgCounts == 0..MaxArgs
Timeouts == 0..MaxTimeout
PollingRates == 1..MaxPollingRate
Expecteds == 1..MaxValue
Tolerances == (-MaxTolerance)..MaxTolerance
\* the tolerance waits are run at the ends of those ranges
WaitExpecteds == {1, MaxValue}
WaitTolerances == {-MaxTolerance, 0, MaxTolerance}

\* the rate argument is present only in the longer form of each call shape
RatesFor(nargs, withRate) == IF nargs \in withRate THEN PollingRates ELSE {0}

CheckCalls ==
  { Call(fn, n, cmp, 0, 0, 0, 0, 0, TRUE) :
      fn \in CheckFns, n \in {1, 4}, cmp \in Comparisons }
  \cup { Call(fn, n, EmptyComparison, 0, 0, 0, 0, 0, TRUE) :
      fn \in CheckFns, n \in ArgCounts \ {1, 4} }

CheckToleranceCalls ==
  { Call(fn, n, EmptyComparison, e, t, 0, 0, 0, TRUE) :
      fn \in CheckToleranceFns, n \in {3, 5}, e \in Expecteds, t \in Tolerances }
  \cup { Call(fn, n, EmptyComparison, 0, 0, 0, 0, 0, TRUE) :
      fn \in CheckToleranceFns, n \in ArgCounts \ {3, 5} }

WaitCalls ==
  { Call(fn, 0, EmptyComparison, 0, 0, 0, 0, 0, TRUE) : fn \in WaitFns }
  \cup { Call(fn, 1, EmptyComparison, 0, 0, d, 0, 0, num) :
      fn \in WaitFns, d \in Timeouts, num \in BOOLEAN }
  \cup UNION { { Call(fn, n, cmp, 0, 0, tmo, r, 0, TRUE) :
                   fn \in WaitFns, cmp \in Comparisons, tmo \in Timeouts,
                   r \in RatesFor(n, {3, 6}) } : n \in {2, 3, 5, 6} }
  \cup { Call(fn, n, EmptyComparison, 0, 0, 0, 0, 0, TRUE) :
      fn \in WaitFns, n \in ArgCounts \ {0, 1, 2, 3, 5, 6} }

WaitCheckCalls ==
  UNION { { Call(fn, n, cmp, 0, 0, tmo, r, 0, TRUE) :
              fn \in WaitCheckFns, cmp \in Comparisons, tmo \in Timeouts,
              r \in RatesFor(n, {3, 6}) } : n \in {2, 3, 5, 6} }
  \cup { Call(fn, n, EmptyComparison, 0, 0, 0, 0, 0, TRUE) :
      fn \in WaitCheckFns, n \in ArgCounts \ {2, 3, 5, 6} }

ToleranceWaitCalls ==
  UNION { { Call(fn, n, EmptyComparison, e, t, tmo, r, 0, TRUE) :
              fn \in WaitToleranceFns \cup WaitCheckToleranceFns,
              e \in WaitExpecteds, t \in WaitTolerances, tmo \in Timeouts,
              r \in RatesFor(n, {5, 7}) } : n \in {4, 5, 6, 7} }
  \cup { Call(fn, n, EmptyComparison, 0, 0, 0, 0, 0, TRUE) :
      fn \in WaitToleranceFns \cup WaitCheckToleranceFns,
      n \in ArgCounts \ {4, 5, 6, 7} }

\* check_expression(exp_to_eval); wait_expression(exp_to_eval, timeout
\* [, polling_rate]); wait_check_expression likewise
ExpressionCalls ==
  { Call("check_expression", 1, cmp, 0, 0, 0, 0, 0, TRUE) :
      cmp \in Comparisons \ {EmptyComparison} }
  \cup UNION { { Call(fn, n, cmp, 0, 0, tmo, r, 0, TRUE) :
                   fn \in {"wait_expression", "wait_check_expression"},
                   cmp \in Comparisons \ {EmptyComparison}, tmo \in Timeouts,
                   r \in RatesFor(n, {3}) } : n \in {2, 3} }

\* wait_packet(target_name, packet_name, num_packets, timeout[, polling_rate])
PacketCalls ==
  UNION { { Call(fn, n, EmptyComparison, 0, 0, tmo, r, k, TRUE) :
              fn \in PacketFns, tmo \in Timeouts, k \in 1..MaxPackets,
              r \in RatesFor(n, {5}) } : n \in {4, 5} }

Calls ==
  CheckCalls \cup CheckToleranceCalls \cup WaitCalls \cup WaitCheckCalls
  \cup ToleranceWaitCalls \cup ExpressionCalls \cup PacketCalls

\* ------------------------------------------------------------- array items
\* The lists of length n over S (a Python list; indices from 1 here).
Lists(S, n) == [1..n -> S]
ListsUpTo(S, n) == UNION { Lists(S, k) : k \in 0..n }

ArraySizes == 0..MaxLen

\* What the value provider returns for the item of call c.
ItemValues(c) ==
  IF c.value_is_list THEN Lists(Values, c.array_size) ELSE Values

\* An expected_value or tolerance argument: a single value x, or a list xs.
Scalar(x) == [is_list |-> FALSE, x |-> x, xs |-> << >>]
List(xs) == [is_list |-> TRUE, x |-> 0, xs |-> xs]
ExpectedArgs ==
  { Scalar(e) : e \in WaitExpecteds }
  \cup { List(es) : es \in ListsUpTo(WaitExpecteds, MaxLen) }
ToleranceArgs ==
  { Scalar(t) : t \in WaitTolerances }
  \cup { List(ts) : ts \in ListsUpTo({-MaxTolerance, MaxTolerance}, MaxLen) }

\* A call on an array item of n elements.
ArrayCall(fn, nargs, e, t, n, tmo) ==
  [Call(fn, nargs, EmptyComparison, e.x, t.x, tmo, 0, 0, TRUE)
     EXCEPT !.expected_is_list = e.is_list, !.expected_list = e.xs,
            !.tolerance_is_list = t.is_list, !.tolerance_list = t.xs,
            !.value_is_list = TRUE, !.array_size = n]

\* check_tolerance and the tolerance waits on an array item, in both call
\* shapes, the waits with the default polling rate
VectorCalls ==
  { ArrayCall(fn, nargs, e, t, n, 0) :
      fn \in CheckToleranceFns, nargs \in {3, 5}, e \in ExpectedArgs,
      t \in ToleranceArgs, n \in ArraySizes }
  \cup { ArrayCall(fn, nargs, e, t, n, tmo) :
      fn \in WaitToleranceFns \cup WaitCheckToleranceFns, nargs \in {4, 6},
      e \in ExpectedArgs, t \in ToleranceArgs, n \in ArraySizes,
      tmo \in {0, MaxTimeout} }

\* display(display_name), clear(display_name), clear_all()
ViewerCalls ==
  { Call(fn, 1, EmptyComparison, 0, 0, 0, 0, 0, TRUE) : fn \in ViewerFns }

\* array_tolerance_process_args called on its own
NormalizerCalls ==
  { ArrayCall("array_tolerance_process_args", 4, e, t, n, 0) :
      e \in { Scalar(x) : x \in Expecteds }
           \cup { List(es) : es \in ListsUpTo(WaitExpecteds, MaxLen) },
      t \in { Scalar(x) : x \in Tolerances }
           \cup { List(ts) : ts \in ListsUpTo({-MaxTolerance, MaxTolerance}, MaxLen) },
      n \in ArraySizes }

\* -------------------------------------------------------- argument resolvers
\* Each resolver returns the canonical parameters, or err = TRUE where the
\* source raises RuntimeError("ERROR: Invalid number of arguments ...").
\* abs_raises = TRUE where abs() is given a list and raises TypeError.
ArgError ==
  [err |-> TRUE, abs_raises |-> FALSE, comparison_to_eval |-> EmptyComparison,
   expected_value |-> 0, tolerance |-> 0, timeout |-> 0, polling_rate |-> 0]

\* abs(args[..]) of a resolver: the tolerance it stores
AbsTolerance(c) == IF c.tolerance_is_list THEN 0 ELSE Abs(c.tolerance)

check_process_args(c) ==
  IF c.nargs = 1 \/ c.nargs = 4
    THEN [ArgError EXCEPT !.err = FALSE, !.comparison_to_eval = c.cmp]
  ELSE ArgError

\* check_tolerance_process_args without abs()
check_tolerance_process_args_signed(c) ==
  IF c.nargs = 3 \/ c.nargs = 5
    THEN [ArgError EXCEPT !.err = FALSE, !.expected_value = c.expected,
                          !.tolerance = c.tolerance]
  ELSE ArgError

check_tolerance_process_args(c) ==
  IF c.nargs = 3 \/ c.nargs = 5
    THEN [ArgError EXCEPT !.err = FALSE, !.expected_value = c.expected,
                          !.abs_raises = c.tolerance_is_list,
                          !.tolerance = AbsTolerance(c)]
  ELSE ArgError

\* wait_check_process_args taking four arguments for the explicit form
wait_check_process_args_four(c) ==
  IF c.nargs = 2 \/ c.nargs = 3
    THEN [ArgError EXCEPT !.err = FALSE, !.comparison_to_eval = c.cmp,
            !.timeout = c.timeout,
            !.polling_rate = IF c.nargs = 3 THEN c.rate ELSE DEFAULT_TLM_POLLING_RATE]
  ELSE IF c.nargs = 4 \/ c.nargs = 5 \/ c.nargs = 6
    THEN [ArgError EXCEPT !.err = FALSE, !.comparison_to_eval = c.cmp,
            !.timeout = c.timeout,
            !.polling_rate = IF c.nargs = 6 THEN c.rate ELSE DEFAULT_TLM_POLLING_RATE]
  ELSE ArgError

wait_check_process_args(c) ==
  IF c.nargs = 2 \/ c.nargs = 3
    THEN [ArgError EXCEPT !.err = FALSE, !.comparison_to_eval = c.cmp,
            !.timeout = c.timeout,
            !.polling_rate = IF c.nargs = 3 THEN c.rate ELSE DEFAULT_TLM_POLLING_RATE]
  ELSE IF c.nargs = 5 \/ c.nargs = 6
    THEN [ArgError EXCEPT !.err = FALSE, !.comparison_to_eval = c.cmp,
            !.timeout = c.timeout,
            !.polling_rate = IF c.nargs = 6 THEN c.rate ELSE DEFAULT_TLM_POLLING_RATE]
  ELSE ArgError

wait_tolerance_process_args(c) ==
  IF c.nargs = 4 \/ c.nargs = 5
    THEN [ArgError EXCEPT !.err = FALSE, !.expected_value = c.expected,
            !.abs_raises = c.tolerance_is_list,
            !.tolerance = AbsTolerance(c), !.timeout = c.timeout,
            !.polling_rate = IF c.nargs = 5 THEN c.rate ELSE DEFAULT_TLM_POLLING_RATE]
  ELSE IF c.nargs = 6 \/ c.nargs = 7
    THEN [ArgError EXCEPT !.err = FALSE, !.expected_value = c.expected,
            !.abs_raises = c.tolerance_is_list,
            !.tolerance = AbsTolerance(c), !.timeout = c.timeout,
            !.polling_rate = IF c.nargs = 7 THEN c.rate ELSE DEFAULT_TLM_POLLING_RATE]
  ELSE ArgError

\* array_tolerance_process_args without the size test of the tolerance list
array_tolerance_process_args_unsized(array_size, expected_value, tolerance) ==
  IF expected_value.is_list /\ array_size # Len(expected_value.xs)
    THEN [err |-> "expected_value", expected_value |-> << >>, tolerance |-> << >>]
  ELSE [err |-> "none",
        expected_value |-> IF expected_value.is_list THEN expected_value.xs
                           ELSE [i \in 1..array_size |-> expected_value.x],
        tolerance |-> IF tolerance.is_list THEN tolerance.xs
                      ELSE [i \in 1..array_size |-> tolerance.x]]

\* array_tolerance_process_args taking the single tolerance as a one-element
\* list: [tolerance] instead of [tolerance] * array_size
array_tolerance_process_args_single(array_size, expected_value, tolerance) ==
  IF expected_value.is_list /\ array_size # Len(expected_value.xs)
    THEN [err |-> "expected_value", expected_value |-> << >>, tolerance |-> << >>]
  ELSE IF tolerance.is_list /\ array_size # Len(tolerance.xs)
    THEN [err |-> "tolerance", expected_value |-> << >>, tolerance |-> << >>]
  ELSE [err |-> "none",
        expected_value |-> IF expected_value.is_list THEN expected_value.xs
                           ELSE [i \in 1..array_size |-> expected_value.x],
        tolerance |-> IF tolerance.is_list THEN tolerance.xs
                      ELSE << tolerance.x >>]

\* array_tolerance_process_args: the two lists it returns, or err naming the
\* argument of RuntimeError("ERROR: Invalid array size for ... passed to ...")
array_tolerance_process_args(array_size, expected_value, tolerance) ==
  IF expected_value.is_list /\ array_size # Len(expected_value.xs)
    THEN [err |-> "expected_value", expected_value |-> << >>, tolerance |-> << >>]
  ELSE IF tolerance.is_list /\ array_size # Len(tolerance.xs)
    THEN [err |-> "tolerance", expected_value |-> << >>, tolerance |-> << >>]
  ELSE [err |-> "none",
        expected_value |-> IF expected_value.is_list THEN expected_value.xs
                           ELSE [i \in 1..array_size |-> expected_value.x],
        tolerance |-> IF tolerance.is_list THEN tolerance.xs
                      ELSE [i \in 1..array_size |-> tolerance.x]]

\* wait_process_args: which branch of the arity dispatch a call takes
wait_process_args_branch(c) ==
  IF c.nargs = 0 THEN "indefinite"
  ELSE IF c.nargs = 1 THEN "sleep"
  ELSE IF c.nargs = 2 \/ c.nargs = 3 THEN "text"
  ELSE IF c.nargs = 5 \/ c.nargs = 6 THEN "fields"
  ELSE "invalid"

\* wait_process_args taking the polling rate of the compact form only
wait_process_args_rate_compact(c) ==
  IF c.nargs = 3 THEN c.rate ELSE DEFAULT_TLM_POLLING_RATE

\* wait_process_args, lines 599-602 and 611-614
wait_process_args_rate(c) ==
  IF c.nargs = 3 \/ c.nargs = 6 THEN c.rate ELSE DEFAULT_TLM_POLLING_RATE

\* the polling_rate parameter of wait_expression, wait_check_expression,
\* _wait_packet: the default of the signature when the argument is omitted
signature_polling_rate(c, full) ==
  IF c.nargs = full THEN c.rate ELSE DEFAULT_TLM_POLLING_RATE

\* ------------------------------------------------------------ exp_to_eval
\* The text the poll loop evaluates on every tick, by what it computes.
cosmos_script_wait_implementation(cmp) ==
  [kind |-> "comparison", cmp |-> cmp, e |-> 0, t |-> 0]

cosmos_script_wait_implementation_tolerance(expected_value, tolerance) ==
  [kind |-> "tolerance", cmp |-> EmptyComparison,
   e |-> FormatG(expected_value), t |-> FormatG(Abs(tolerance))]

\* cosmos_script_wait_implementation_array_tolerance, lines 737-740: the
\* exception that leaves it.  `statements` is a list, and a Python list has no
\* join method, so line 740 raises AttributeError whatever the arguments are;
\* line 741 is not reached.
cosmos_script_wait_implementation_array_tolerance(array_size, expected_value, tolerance) ==
  "AttributeError"

\* evaluating the text with the try / except that turns an error into False
ExpRaisesSwallowed(exp, v) == FALSE

\* eval(exp_to_eval) raises on the value v
ExpRaises(exp, v) == exp.kind = "comparison" /\ EvalRaises(exp.cmp, v)

Eval(exp, v) ==
  IF exp.kind = "comparison" THEN EvalComparison(exp.cmp, v)
  ELSE v >= (exp.e - exp.t) /\ v <= (exp.t + exp.e)

\* cosmos_script_sleep: "returns true if canceled mid sleep"; what it returns
cosmos_script_sleep(sleep_time) == FALSE

\* Fixed-interval polling: sleep(polling_rate) whatever the tick has cost
SleepTimeFixed(rate, delta, end_delta) == rate

\* SleepTime without the clamp to the time left: sleep(polling_rate - delta)
SleepTimeNoDeadline(rate, delta, end_delta) ==
  LET s1 == rate - delta
  IN IF s1 < 0 THEN 0 ELSE s1

\* SleepTime without the clamp at zero
SleepTimeNoFloor(rate, delta, end_delta) ==
  LET s1 == rate - delta
  IN IF end_delta < s1 THEN end_delta ELSE s1

\* lines 709-715: the duration handed to cosmos_script_sleep
SleepTime(rate, delta, end_delta) ==
  LET s1 == rate - delta
      s2 == IF end_delta < s1 THEN end_delta ELSE s1
  IN IF s2 < 0 THEN 0 ELSE s2

\* The function_name each handler hands to its resolver: _check 'check' (line
\* 20), _check_tolerance 'check_tolerance' (line 73), _wait_check 'wait_check'
\* (line 237), whichever public entry point was called; wait and wait_raw
\* their own names (lines 148, 156), the tolerance waits type_string (lines
\* 163-166, 270-277).
function_name(fn) ==
  CASE fn \in CheckFns -> "check"
    [] fn \in CheckToleranceFns -> "check_tolerance"
    [] fn \in WaitCheckFns -> "wait_check"
    [] OTHER -> fn

\* "ERROR: Invalid number of arguments ({:d}) passed to {:s}()".format(length,
\* function_name): the two things the text says
InvalidNumberOfArguments(length, name) ==
  [function_name |-> name, length |-> length]

\* no RuntimeError of a resolver has been raised
NoMessage == InvalidNumberOfArguments(0, "")

\* ------------------------------------------------------------------- state
VARIABLES
  call,           \* the call being made (never changes)
  pc,             \* where the call stands
  now,            \* time.time()
  timeout,        \* the resolved timeout
  polling_rate,   \* the resolved polling rate
  exp_to_eval,    \* the text the poll loop evaluates
  end_time,       \* the poll loop's deadline
  work_start,     \* the poll loop's work_start
  sleep_time,     \* the duration last handed to cosmos_script_sleep
  value,          \* the value last sampled
  success,        \* what the poll loop returned (read once pc = "report")
  start_time,     \* the wrapper's start_time
  initial_count,  \* _wait_packet's initial_count
  result,         \* what the public entry point returned, once it has
  raised,         \* the exception that left the entry point, or "none"
  log,            \* the levels of the messages logged, in order
  nSamples,       \* calls of the value provider so far
  nEvals,         \* evaluations of a comparison or expression so far
  nDelays,        \* calls of cosmos_script_sleep so far
  lastCost,       \* the time the last sample+evaluate took
  anyTrue,        \* some evaluation so far was true
  satisfied_from, \* the time from which the provider's value satisfies the
                  \* predicate, or Unconstrained
  message,        \* the lines of the per-element message last built
  retry_count,    \* write_tlm_viewer's retry_count
  nWrites,        \* calls of tlm_viewer.write so far
  nLaunches,      \* calls of start_tlm_viewer so far
  disconnected,   \* tlm_viewer.disconnect() has been called
  error_message   \* what the resolver's RuntimeError says, once one is raised

vars ==
  << call, pc, now, timeout, polling_rate, exp_to_eval, end_time, work_start,
     sleep_time, value, success, start_time, initial_count, result, raised,
     log, nSamples, nEvals, nDelays, lastCost, anyTrue, satisfied_from,
     message, retry_count, nWrites, nLaunches, disconnected, error_message >>

viewerVars == << retry_count, nWrites, nLaunches, disconnected >>

\* what the scalar check and wait entry points never touch
otherVars == << satisfied_from, message, error_message, viewerVars >>

\* the provider's value is not tied to the clock
Unconstrained == -1

loopVars == << end_time, work_start, sleep_time, success, nDelays >>

\* The state in which every call starts.
Start ==
  /\ pc = "call"
  /\ now = 0
  /\ timeout = 0
  /\ polling_rate = 0
  /\ exp_to_eval = cosmos_script_wait_implementation(EmptyComparison)
  /\ end_time = 0
  /\ work_start = 0
  /\ sleep_time = 0
  /\ value = 0
  /\ success = FALSE
  /\ start_time = 0
  /\ initial_count = 0
  /\ result = None
  /\ raised = "none"
  /\ log = << >>
  /\ nSamples = 0
  /\ nEvals = 0
  /\ nDelays = 0
  /\ lastCost = 0
  /\ anyTrue = FALSE
  /\ message = << >>
  /\ retry_count = 0
  /\ nWrites = 0
  /\ nLaunches = 0
  /\ disconnected = FALSE
  /\ error_message = NoMessage

Init ==
  /\ call \in Calls
  /\ satisfied_from = Unconstrained
  /\ Start

params == << timeout, polling_rate, exp_to_eval >>
wrapVars == << start_time, initial_count >>
sampleVars == << value, now, nSamples, lastCost >>
evalVars == << nEvals, anyTrue >>

\* The entry point raises exc.
Raise(exc) ==
  /\ raised' = exc
  /\ pc' = "done"
  /\ UNCHANGED << result, log >>

\* The text of the resolver's RuntimeError, where the step raises it.
ArgumentCountText ==
  error_message' =
    IF raised' = "ArgumentCountError"
      THEN InvalidNumberOfArguments(call.nargs, function_name(call.fn))
      ELSE error_message

\* The entry point logs one message at `level` and returns r.
LogAndReturn(level, r) ==
  /\ log' = Append(log, level)
  /\ result' = r
  /\ pc' = "done"
  /\ UNCHANGED raised

\* One call of the value provider: it returns v and takes c ticks.
Sample(v, c) ==
  /\ value' = v
  /\ now' = now + c
  /\ nSamples' = nSamples + 1
  /\ lastCost' = c

\* One eval() of a comparison or expression, with the truth b of its result.
Evaluated(b) ==
  /\ nEvals' = nEvals + 1
  /\ anyTrue' = (anyTrue \/ b)

\* value >= range_bottom and value <= range_top
InRange(v, range_bottom, range_top) == v >= range_bottom /\ v <= range_top

\* ----------------------------------------------------------- immediate checks
LogLevels == {"INFO", "WARNING"}

\* check_eval that logs a failed check as a warning instead of raising
check_eval_warns(comparison_to_eval, v) ==
  IF EvalRaises(comparison_to_eval, v) THEN "EvalError"
  ELSE IF EvalComparison(comparison_to_eval, v) THEN "INFO"
  ELSE "WARNING"

\* check_eval: the level it logs at, or the exception that leaves it
check_eval(comparison_to_eval, v) ==
  IF EvalRaises(comparison_to_eval, v) THEN "EvalError"
  ELSE IF EvalComparison(comparison_to_eval, v) THEN "INFO"
  ELSE "CheckError"

\* _check (check, check_formatted, check_with_units, check_raw) and check_eval
_check ==
  /\ pc = "call"
  /\ call.fn \in CheckFns
  /\ LET a == check_process_args(call) IN
     IF a.err
       THEN /\ Raise("ArgumentCountError")
            /\ UNCHANGED << sampleVars, evalVars >>
       ELSE \E v \in Values, c \in 0..MaxCost :
              /\ Sample(v, c)
              /\ IF a.comparison_to_eval # EmptyComparison
                   THEN /\ Evaluated(check_eval(a.comparison_to_eval, v) = "INFO")
                        /\ IF check_eval(a.comparison_to_eval, v) \in LogLevels
                             THEN LogAndReturn(check_eval(a.comparison_to_eval, v), None)
                             ELSE Raise(check_eval(a.comparison_to_eval, v))
                   ELSE \* line 26: _upcase() is given four arguments
                        /\ Raise("TypeError")
                        /\ UNCHANGED evalVars
  /\ ArgumentCountText
  /\ UNCHANGED << call, satisfied_from, message, viewerVars, params, loopVars,
                  wrapVars >>

\* the expected_value argument as the resolver hands it on
ExpectedOf(c, a) ==
  IF c.expected_is_list THEN List(c.expected_list) ELSE Scalar(a.expected_value)

\* The per-element loop stopping at the first element out of range.
check_tolerance_lines_first_failure(v, expected_value, tolerance) ==
  LET all == [i \in 1..Len(v) |->
                IF InRange(v[i], expected_value[i] - tolerance[i],
                           expected_value[i] + tolerance[i])
                  THEN "within" ELSE "failed"]
      failing == { i \in 1..Len(v) : all[i] = "failed" }
  IN IF failing = {} THEN all
     ELSE SubSeq(all, 1, CHOOSE i \in failing : \A j \in failing : i <= j)

\* _check_tolerance, lines 78-89: the message, one line per element of the
\* value, "was within" or "failed to be within" its range
check_tolerance_lines(v, expected_value, tolerance) ==
  [i \in 1..Len(v) |->
     IF InRange(v[i], expected_value[i] - tolerance[i],
                expected_value[i] + tolerance[i])
       THEN "within" ELSE "failed"]

\* all_checks_ok, lines 79 and 89
all_checks_ok(lines) == \A i \in 1..Len(lines) : lines[i] = "within"

\* _check_tolerance (check_tolerance, check_tolerance_raw): the list branch
\* (lines 75-95) for an array item, the scalar branch (lines 96-106) otherwise
_check_tolerance ==
  /\ pc = "call"
  /\ call.fn \in CheckToleranceFns
  /\ LET a == check_tolerance_process_args(call) IN
     IF a.err
       THEN /\ Raise("ArgumentCountError")
            /\ UNCHANGED << sampleVars, message >>
     ELSE IF a.abs_raises
       THEN /\ Raise("TypeError")
            /\ UNCHANGED << sampleVars, message >>
       ELSE \E v \in ItemValues(call), c \in 0..MaxCost :
              /\ Sample(v, c)
              /\ IF call.value_is_list
                   THEN LET n == array_tolerance_process_args(
                                   Len(v), ExpectedOf(call, a), Scalar(a.tolerance))
                            lines == check_tolerance_lines(
                                       v, n.expected_value, n.tolerance)
                        IN IF n.err # "none"
                             THEN /\ Raise("ArraySizeError")
                                  /\ UNCHANGED message
                             ELSE /\ message' = lines
                                  /\ IF all_checks_ok(lines)
                                       THEN LogAndReturn("INFO", None)
                                       ELSE Raise("CheckError")
                   ELSE /\ UNCHANGED message
                        /\ LET range_bottom == a.expected_value - a.tolerance
                               range_top == a.expected_value + a.tolerance
                           IN IF InRange(v, range_bottom, range_top)
                                THEN LogAndReturn("INFO", None)
                                ELSE Raise("CheckError")
  /\ ArgumentCountText
  /\ UNCHANGED << call, satisfied_from, viewerVars, params, loopVars, wrapVars,
                  evalVars >>

\* ------------------------------------------------------------- the poll loops
\* Entry of either poll loop: end_time = time.time() + timeout, t being the
\* time of the call.
EnterLoop(t, tmo, rate, exp, where) ==
  /\ timeout' = tmo
  /\ polling_rate' = rate
  /\ exp_to_eval' = exp
  /\ end_time' = t + tmo
  /\ pc' = where
  /\ UNCHANGED << work_start, sleep_time, success, nDelays, result, raised, log >>

\* AfterFalse with the deadline test written `>` instead of `>=`
AfterFalseStrict(t, sleeping) ==
  IF t > end_time
    THEN /\ success' = FALSE
         /\ pc' = "report"
         /\ UNCHANGED sleep_time
    ELSE /\ sleep_time' = SleepTime(polling_rate, t - now, end_time - t)
         /\ pc' = sleeping
         /\ UNCHANGED success

\* AfterFalse timing out on the sum of the polling intervals slept so far
\* instead of on the clock
AfterFalseAccumulated(t, sleeping) ==
  IF nDelays * polling_rate >= timeout
    THEN /\ success' = FALSE
         /\ pc' = "report"
         /\ UNCHANGED sleep_time
    ELSE /\ sleep_time' = SleepTime(polling_rate, t - now, polling_rate)
         /\ pc' = sleeping
         /\ UNCHANGED success

\* What follows a false evaluation that ended at time t (lines 706-715): the
\* loop breaks at or after end_time, and otherwise computes sleep_time.
AfterFalse(t, sleeping) ==
  IF t >= end_time
    THEN /\ success' = FALSE
         /\ pc' = "report"
         /\ UNCHANGED sleep_time
    ELSE /\ sleep_time' = SleepTime(polling_rate, t - now, end_time - t)
         /\ pc' = sleeping
         /\ UNCHANGED success

\* tlm_variable, line 703, for an item whose value satisfies the predicate
\* from the time satisfied_from on and not before: the provider reads the item
\* at some instant of the c ticks the sample takes.
Provided(v, c) ==
  \/ satisfied_from = Unconstrained
  \/ /\ now >= satisfied_from => Eval(exp_to_eval, v)
     /\ now + c < satisfied_from => ~Eval(exp_to_eval, v)

\* The loop body with the deadline tested before the predicate (lines 704-705
\* and 706-707 exchanged)
_cosmos_script_wait_implementation_deadline_first ==
  /\ pc = "poll"
  /\ work_start' = now
  /\ \E v \in Values, c \in 0..MaxCost :
       /\ Provided(v, c)
       /\ Sample(v, c)
       /\ IF ExpRaises(exp_to_eval, v)
            THEN /\ Evaluated(FALSE)
                 /\ Raise("EvalError")
                 /\ UNCHANGED << sleep_time, success >>
            ELSE /\ Evaluated(Eval(exp_to_eval, v))
                 /\ UNCHANGED << result, raised, log >>
                 /\ IF now + c >= end_time
                      THEN /\ success' = FALSE
                           /\ pc' = "report"
                           /\ UNCHANGED sleep_time
                      ELSE IF Eval(exp_to_eval, v)
                        THEN /\ success' = TRUE
                             /\ pc' = "report"
                             /\ UNCHANGED sleep_time
                        ELSE AfterFalse(now + c, "sleep")
  /\ UNCHANGED << call, otherVars, params, end_time, nDelays, wrapVars >>

\* _cosmos_script_wait_implementation, lines 702-715: one pass of the loop
\* body up to the call of cosmos_script_sleep
_cosmos_script_wait_implementation ==
  /\ pc = "poll"
  /\ work_start' = now
  /\ \E v \in Values, c \in 0..MaxCost :
       /\ Provided(v, c)
       /\ Sample(v, c)
       /\ IF ExpRaises(exp_to_eval, v)
            THEN /\ Evaluated(FALSE)
                 /\ Raise("EvalError")
                 /\ UNCHANGED << sleep_time, success >>
            ELSE /\ Evaluated(Eval(exp_to_eval, v))
                 /\ UNCHANGED << result, raised, log >>
                 /\ IF Eval(exp_to_eval, v)
                      THEN /\ success' = TRUE
                           /\ pc' = "report"
                           /\ UNCHANGED sleep_time
                      ELSE AfterFalse(now + c, "sleep")
  /\ UNCHANGED << call, otherVars, params, end_time, nDelays, wrapVars >>

\* The loop delaying twice in a row: cosmos_script_sleep called a second time
\* before the next sample
_cosmos_script_wait_implementation_sleep_twice ==
  /\ pc = "sleep"
  /\ nDelays' = nDelays + 2
  /\ now' = now + sleep_time + sleep_time
  /\ pc' = "poll"
  /\ UNCHANGED << value, nSamples, lastCost, evalVars, success, result, raised,
                  log >>
  /\ UNCHANGED << call, otherVars, params, end_time, work_start, sleep_time,
                  wrapVars >>

\* _cosmos_script_wait_implementation, lines 716-723: the sleep, and the
\* re-sample when cosmos_script_sleep reports that it was canceled
_cosmos_script_wait_implementation_sleep ==
  /\ pc = "sleep"
  /\ nDelays' = nDelays + 1
  /\ IF cosmos_script_sleep(sleep_time)
       THEN \E v \in Values, c \in 0..MaxCost :
              /\ value' = v
              /\ now' = now + sleep_time + c
              /\ nSamples' = nSamples + 1
              /\ lastCost' = c
              /\ IF ExpRaises(exp_to_eval, v)
                   THEN /\ Evaluated(FALSE)
                        /\ Raise("EvalError")
                        /\ UNCHANGED success
                   ELSE /\ Evaluated(Eval(exp_to_eval, v))
                        /\ success' = Eval(exp_to_eval, v)
                        /\ pc' = "report"
                        /\ UNCHANGED << result, raised, log >>
       ELSE /\ now' = now + sleep_time
            /\ pc' = "poll"
            /\ UNCHANGED << value, nSamples, lastCost, evalVars, success,
                            result, raised, log >>
  /\ UNCHANGED << call, otherVars, params, end_time, work_start, sleep_time, wrapVars >>

\* cosmos_script_wait_implementation_expression, lines 748-761.  The
\* expression reads the environment: v stands for what it reads, and its
\* evaluation takes c ticks.  No value is sampled from the provider.
cosmos_script_wait_implementation_expression ==
  /\ pc = "poll_expression"
  /\ work_start' = now
  /\ \E v \in Values, c \in 0..MaxCost :
       /\ now' = now + c
       /\ lastCost' = c
       /\ IF ExpRaises(cosmos_script_wait_implementation(call.cmp), v)
            THEN /\ Evaluated(FALSE)
                 /\ Raise("EvalError")
                 /\ UNCHANGED << sleep_time, success >>
            ELSE /\ Evaluated(EvalComparison(call.cmp, v))
                 /\ UNCHANGED << result, raised, log >>
                 /\ IF EvalComparison(call.cmp, v)
                      THEN /\ success' = TRUE
                           /\ pc' = "report"
                           /\ UNCHANGED sleep_time
                      ELSE AfterFalse(now + c, "sleep_expression")
  /\ UNCHANGED << call, otherVars, params, end_time, nDelays, wrapVars, value, nSamples >>

\* cosmos_script_wait_implementation_expression, lines 762-768
cosmos_script_wait_implementation_expression_sleep ==
  /\ pc = "sleep_expression"
  /\ nDelays' = nDelays + 1
  /\ IF cosmos_script_sleep(sleep_time)
       THEN \E v \in Values, c \in 0..MaxCost :
              /\ now' = now + sleep_time + c
              /\ lastCost' = c
              /\ IF ExpRaises(cosmos_script_wait_implementation(call.cmp), v)
                   THEN /\ Evaluated(FALSE)
                        /\ Raise("EvalError")
                        /\ UNCHANGED success
                   ELSE /\ Evaluated(EvalComparison(call.cmp, v))
                        /\ success' = EvalComparison(call.cmp, v)
                        /\ pc' = "report"
                        /\ UNCHANGED << result, raised, log >>
       ELSE /\ now' = now + sleep_time
            /\ pc' = "poll_expression"
            /\ UNCHANGED << lastCost, evalVars, success, result, raised, log >>
  /\ UNCHANGED << call, otherVars, params, end_time, work_start, sleep_time, wrapVars,
                  value, nSamples >>

\* ------------------------------------------------------------ wait, wait_raw
\* wait_process_args (wait, wait_raw), up to the entry of the poll loop; the
\* fixed-duration form, which does not loop, is the whole call.
wait_process_args ==
  /\ pc = "call"
  /\ call.fn \in WaitFns
  /\ LET branch == wait_process_args_branch(call) IN
     CASE branch = "indefinite" ->
            \* cosmos_script_sleep() blocks in input()
            /\ start_time' = now
            /\ pc' = "input"
            /\ UNCHANGED << params, loopVars, now, result, raised, log >>
       [] branch = "sleep" ->
            IF ~call.numeric
              THEN /\ Raise("NonNumericWaitError")
                   /\ UNCHANGED << params, loopVars, now, start_time >>
              ELSE /\ start_time' = now
                   /\ now' = now + call.timeout
                   /\ nDelays' = nDelays + 1
                   /\ LogAndReturn("INFO", None)
                   /\ UNCHANGED << params, end_time, work_start, sleep_time, success >>
       [] branch \in {"text", "fields"} ->
            \* _execute_wait, lines 563-564
            /\ start_time' = now
            /\ EnterLoop(now, call.timeout, wait_process_args_rate(call),
                         cosmos_script_wait_implementation(call.cmp), "poll")
            /\ UNCHANGED now
       [] OTHER ->
            /\ Raise("ArgumentCountError")
            /\ UNCHANGED << params, loopVars, now, start_time >>
  /\ ArgumentCountText
  /\ UNCHANGED << call, satisfied_from, message, viewerVars, initial_count,
                  value, nSamples, lastCost, evalVars >>

\* cosmos_script_sleep(None): input() returns when the operator presses Enter,
\* after which wait_process_args logs and wait returns.
cosmos_script_sleep_input ==
  /\ pc = "input"
  /\ \E d \in 0..MaxCost : now' = now + d
  /\ nDelays' = nDelays + 1
  /\ LogAndReturn("INFO", None)
  /\ UNCHANGED << call, otherVars, params, end_time, work_start, sleep_time, success,
                  wrapVars, value, nSamples, lastCost, evalVars >>

\* What a report leaves alone.
reportFrame ==
  << call, otherVars, params, loopVars, wrapVars, sampleVars, evalVars >>

\* _execute_wait, lines 565-572; wait_process_args returns time_float = None
\* and wait / wait_raw return nothing.
_execute_wait ==
  /\ pc = "report"
  /\ call.fn \in WaitFns
  /\ IF success
       THEN LogAndReturn("INFO", None)
       ELSE LogAndReturn("WARNING", None)
  /\ UNCHANGED reportFrame

\* ------------------------------------------------- wait_check, wait_check_raw
_wait_check_enter ==
  /\ pc = "call"
  /\ call.fn \in WaitCheckFns
  /\ LET a == wait_check_process_args(call) IN
     IF a.err
       THEN /\ Raise("ArgumentCountError")
            /\ UNCHANGED << params, loopVars, start_time >>
       ELSE /\ start_time' = now
            /\ EnterLoop(now, a.timeout, a.polling_rate,
                         cosmos_script_wait_implementation(a.comparison_to_eval),
                         "poll")
  /\ ArgumentCountText
  /\ UNCHANGED << call, satisfied_from, message, viewerVars, initial_count,
                  sampleVars, evalVars >>

\* _wait_check reporting a timeout the way _execute_wait does
_wait_check_warns ==
  /\ pc = "report"
  /\ call.fn \in WaitCheckFns
  /\ IF success
       THEN LogAndReturn("INFO", Float(now - start_time))
       ELSE LogAndReturn("WARNING", Float(now - start_time))
  /\ UNCHANGED << call, otherVars, timeout, polling_rate, exp_to_eval, end_time, work_start,
                  sleep_time, success, nDelays, start_time, initial_count, value,
                  now, nSamples, lastCost, nEvals, anyTrue >>

\* _wait_check, lines 240-249
_wait_check ==
  /\ pc = "report"
  /\ call.fn \in WaitCheckFns
  /\ IF success
       THEN LogAndReturn("INFO", Float(now - start_time))
       ELSE Raise("CheckError")
  /\ UNCHANGED reportFrame

\* ------------------------------------------ wait_tolerance, wait_tolerance_raw
\* _wait_tolerance without line 168: the loop entered without a sample taken
\* before it
_wait_tolerance_enter_unsampled ==
  /\ pc = "call"
  /\ call.fn \in WaitToleranceFns
  /\ LET a == wait_tolerance_process_args(call) IN
     IF a.err
       THEN /\ Raise("ArgumentCountError")
            /\ UNCHANGED << params, loopVars, start_time >>
       ELSE /\ start_time' = now
            /\ EnterLoop(now, a.timeout, a.polling_rate,
                         cosmos_script_wait_implementation_tolerance(
                           a.expected_value, a.tolerance),
                         "poll")
  /\ ArgumentCountText
  /\ UNCHANGED << call, satisfied_from, message, viewerVars, initial_count,
                  sampleVars, evalVars >>

\* _wait_tolerance, lines 158-171 and 191, on a scalar value: the arguments,
\* the sample taken before the loop, and the entry of the loop
_wait_tolerance_enter ==
  /\ pc = "call"
  /\ call.fn \in WaitToleranceFns
  /\ LET a == wait_tolerance_process_args(call) IN
     IF a.err
       THEN /\ Raise("ArgumentCountError")
            /\ UNCHANGED << params, loopVars, start_time, sampleVars >>
     ELSE IF a.abs_raises
       THEN /\ Raise("TypeError")
            /\ UNCHANGED << params, loopVars, start_time, sampleVars >>
       ELSE \E v \in ItemValues(call), c \in 0..MaxCost :
              /\ start_time' = now
              /\ Sample(v, c)
              /\ IF call.value_is_list
                   THEN \* lines 170-171: the list branch
                        LET n == array_tolerance_process_args(
                                   Len(v), ExpectedOf(call, a), Scalar(a.tolerance))
                        IN /\ IF n.err # "none"
                                THEN Raise("ArraySizeError")
                                ELSE Raise(cosmos_script_wait_implementation_array_tolerance(
                                             Len(v), n.expected_value, n.tolerance))
                           /\ UNCHANGED << params, loopVars >>
                   ELSE EnterLoop(now + c, a.timeout, a.polling_rate,
                                  cosmos_script_wait_implementation_tolerance(
                                    a.expected_value, a.tolerance),
                                  "poll")
  /\ ArgumentCountText
  /\ UNCHANGED << call, satisfied_from, message, viewerVars, initial_count,
                  evalVars >>

\* _wait_tolerance, lines 192-202
_wait_tolerance ==
  /\ pc = "report"
  /\ call.fn \in WaitToleranceFns
  /\ IF success
       THEN LogAndReturn("INFO", Float(now - start_time))
       ELSE LogAndReturn("WARNING", Float(now - start_time))
  /\ UNCHANGED reportFrame

\* ------------------------------ wait_check_tolerance, wait_check_tolerance_raw
\* _wait_check_tolerance, lines 269-282 and 302, on a scalar value
_wait_check_tolerance_enter ==
  /\ pc = "call"
  /\ call.fn \in WaitCheckToleranceFns
  /\ LET a == wait_tolerance_process_args(call) IN
     IF a.err
       THEN /\ Raise("ArgumentCountError")
            /\ UNCHANGED << params, loopVars, start_time, sampleVars >>
     ELSE IF a.abs_raises
       THEN /\ Raise("TypeError")
            /\ UNCHANGED << params, loopVars, start_time, sampleVars >>
       ELSE \E v \in ItemValues(call), c \in 0..MaxCost :
              /\ start_time' = now
              /\ Sample(v, c)
              /\ IF call.value_is_list
                   THEN \* lines 170-282: the list branch
                        LET n == array_tolerance_process_args(
                                   Len(v), ExpectedOf(call, a), Scalar(a.tolerance))
                        IN /\ IF n.err # "none"
                                THEN Raise("ArraySizeError")
                                ELSE Raise(cosmos_script_wait_implementation_array_tolerance(
                                             Len(v), n.expected_value, n.tolerance))
                           /\ UNCHANGED << params, loopVars >>
                   ELSE EnterLoop(now + c, a.timeout, a.polling_rate,
                                  cosmos_script_wait_implementation_tolerance(
                                    a.expected_value, a.tolerance),
                                  "poll")
  /\ ArgumentCountText
  /\ UNCHANGED << call, satisfied_from, message, viewerVars, initial_count,
                  evalVars >>

\* _wait_check_tolerance, lines 303-314, and its public wrappers (lines
\* 316-320), which drop the time_float it returns
_wait_check_tolerance ==
  /\ pc = "report"
  /\ call.fn \in WaitCheckToleranceFns
  /\ IF success
       THEN LogAndReturn("INFO", None)
       ELSE Raise("CheckError")
  /\ UNCHANGED reportFrame

\* ------------------------------------------------------------- expressions
\* check_expression, line 133: timeout 0, the default polling rate
check_expression_enter ==
  /\ pc = "call"
  /\ call.fn = "check_expression"
  /\ EnterLoop(now, 0, DEFAULT_TLM_POLLING_RATE, exp_to_eval, "poll_expression")
  /\ UNCHANGED << call, otherVars, wrapVars, sampleVars, evalVars >>

\* check_expression, lines 134-139
check_expression ==
  /\ pc = "report"
  /\ call.fn = "check_expression"
  /\ IF success
       THEN LogAndReturn("INFO", None)
       ELSE Raise("CheckError")
  /\ UNCHANGED reportFrame

\* wait_expression, lines 222-223
wait_expression_enter ==
  /\ pc = "call"
  /\ call.fn = "wait_expression"
  /\ start_time' = now
  /\ EnterLoop(now, call.timeout, signature_polling_rate(call, 3), exp_to_eval,
               "poll_expression")
  /\ UNCHANGED << call, otherVars, initial_count, sampleVars, evalVars >>

\* wait_expression, lines 224-230
wait_expression ==
  /\ pc = "report"
  /\ call.fn = "wait_expression"
  /\ IF success
       THEN LogAndReturn("INFO", Float(now - start_time))
       ELSE LogAndReturn("WARNING", Float(now - start_time))
  /\ UNCHANGED reportFrame

\* wait_check_expression, lines 327-331
wait_check_expression_enter ==
  /\ pc = "call"
  /\ call.fn = "wait_check_expression"
  /\ start_time' = now
  /\ EnterLoop(now, call.timeout, signature_polling_rate(call, 3), exp_to_eval,
               "poll_expression")
  /\ UNCHANGED << call, otherVars, initial_count, sampleVars, evalVars >>

\* wait_check_expression, lines 332-339
wait_check_expression ==
  /\ pc = "report"
  /\ call.fn = "wait_check_expression"
  /\ IF success
       THEN LogAndReturn("INFO", Float(now - start_time))
       ELSE Raise("CheckError")
  /\ UNCHANGED reportFrame

\* ------------------------------------------- wait_packet, wait_check_packet
\* wait_packet passing check = True as wait_check_packet does
packet_check_always(fn) == TRUE

\* the `check` argument: wait_packet passes False, wait_check_packet True
packet_check(fn) == fn = "wait_check_packet"

\* _wait_packet polling for ">= num_packets", the count at the call left out
_wait_packet_enter_absolute ==
  /\ pc = "call"
  /\ call.fn \in PacketFns
  /\ \E v \in Values, c \in 0..MaxCost :
       /\ Sample(v, c)
       /\ initial_count' = v
       /\ start_time' = now + c
       /\ EnterLoop(now + c, call.timeout, signature_polling_rate(call, 5),
                    cosmos_script_wait_implementation(
                      [op |-> ">=", lit |-> call.num_packets]),
                    "poll")
  /\ UNCHANGED << call, otherVars, evalVars >>

\* _wait_packet, lines 351-363: RECEIVED_COUNT is read once, and the loop
\* polls for ">= initial_count + num_packets"
_wait_packet_enter ==
  /\ pc = "call"
  /\ call.fn \in PacketFns
  /\ \E v \in Values, c \in 0..MaxCost :
       /\ Sample(v, c)
       /\ initial_count' = v
       /\ start_time' = now + c
       /\ EnterLoop(now + c, call.timeout, signature_polling_rate(call, 5),
                    cosmos_script_wait_implementation(
                      [op |-> ">=", lit |-> v + call.num_packets]),
                    "poll")
  /\ UNCHANGED << call, otherVars, evalVars >>

\* _wait_packet, lines 364-374
_wait_packet ==
  /\ pc = "report"
  /\ call.fn \in PacketFns
  /\ IF success
       THEN LogAndReturn("INFO", Float(now - start_time))
       ELSE IF packet_check(call.fn)
              THEN Raise("CheckError")
              ELSE LogAndReturn("WARNING", Float(now - start_time))
  /\ UNCHANGED reportFrame

Next ==
  \/ _check
  \/ _check_tolerance
  \/ wait_process_args
  \/ cosmos_script_sleep_input
  \/ _execute_wait
  \/ _wait_check_enter
  \/ _wait_check
  \/ _wait_tolerance_enter
  \/ _wait_tolerance
  \/ _wait_check_tolerance_enter
  \/ _wait_check_tolerance
  \/ check_expression_enter
  \/ check_expression
  \/ wait_expression_enter
  \/ wait_expression
  \/ wait_check_expression_enter
  \/ wait_check_expression
  \/ _wait_packet_enter
  \/ _wait_packet
  \/ _cosmos_script_wait_implementation
  \/ _cosmos_script_wait_implementation_sleep
  \/ cosmos_script_wait_implementation_expression
  \/ cosmos_script_wait_implementation_expression_sleep

Spec == Init /\ [][Next]_vars

\* ------------------------------------------------------------ the viewer
\* What write_tlm_viewer leaves alone.
viewerFrame ==
  << call, satisfied_from, message, error_message, params, end_time,
     work_start, sleep_time, success, wrapVars, value, nSamples, lastCost,
     evalVars >>

\* What tlm_viewer.write(...) does: it returns, raises DRbConnError (no viewer
\* is listening), or raises another exception.
WriteOutcomes == {"written", "DRbConnError", "Exception"}

\* What subprocess.Popen does in start_tlm_viewer: it starts the viewer, or
\* raises OSError (the command cannot be executed).
LaunchOutcomes == {"launched", "OSError"}

\* What line 818 raises.  Its message is formatted with `action`, a name that
\* is bound neither in write_tlm_viewer nor in the module, so evaluating the
\* argument of RuntimeError(...) raises NameError and no RuntimeError is made.
startup_failure == "NameError"

\* display / clear / clear_all and write_tlm_viewer, lines 797-799
write_tlm_viewer_enter ==
  /\ pc = "call"
  /\ call.fn \in ViewerFns
  /\ retry_count' = 0
  /\ pc' = "write"
  /\ UNCHANGED << viewerFrame, now, nDelays, result, raised, log, nWrites,
                  nLaunches, disconnected >>

\* write_tlm_viewer, lines 800-822: one pass of the loop, with
\* start_tlm_viewer (lines 824-834) where it is called
write_tlm_viewer ==
  /\ pc = "write"
  /\ nWrites' = nWrites + 1
  /\ \E written \in WriteOutcomes :
       CASE written = "written" ->
              \* break, then line 822
              /\ disconnected' = TRUE
              /\ result' = None
              /\ pc' = "done"
              /\ UNCHANGED << now, nDelays, raised, retry_count, nLaunches >>
         [] written = "Exception" ->
              \* lines 819-821
              /\ disconnected' = TRUE
              /\ raised' = "Exception"
              /\ pc' = "done"
              /\ UNCHANGED << now, nDelays, result, retry_count, nLaunches >>
         [] written = "DRbConnError" ->
              IF cosmos_script_sleep(OneSecond)
                THEN \* canceled: the loop goes round without counting
                     /\ now' = now + OneSecond
                     /\ nDelays' = nDelays + 1
                     /\ UNCHANGED << pc, result, raised, retry_count, nLaunches,
                                     disconnected >>
                ELSE \E launch \in LaunchOutcomes :
                       /\ retry_count' = retry_count + 1
                       /\ nLaunches' = nLaunches + 1
                       /\ UNCHANGED << result, disconnected >>
                       /\ IF launch = "OSError"
                            THEN /\ now' = now + OneSecond
                                 /\ nDelays' = nDelays + 1
                                 /\ raised' = "OSError"
                                 /\ pc' = "done"
                            ELSE /\ now' = now + OneSecond + OneSecond
                                 /\ nDelays' = nDelays + 2
                                 /\ IF retry_count + 1 < max_retries
                                      THEN UNCHANGED << pc, raised >>
                                      ELSE /\ raised' = startup_failure
                                           /\ pc' = "done"
  /\ UNCHANGED << viewerFrame, log >>

ViewerInit ==
  /\ call \in ViewerCalls
  /\ satisfied_from = Unconstrained
  /\ Start

ViewerNext ==
  \/ write_tlm_viewer_enter
  \/ write_tlm_viewer

ViewerSpec == ViewerInit /\ [][ViewerNext]_vars

\* wait_check on an item whose value satisfies the comparison from some time
\* on and not before.
ResponseCalls ==
  { c \in Calls :
      c.fn = "wait_check" /\ c.nargs \in {2, 3} /\ c.cmp \in GoodComparisons }

ResponseInit ==
  /\ call \in ResponseCalls
  /\ satisfied_from \in 0..MaxTimeout
  /\ Start

ResponseNext ==
  \/ _wait_check_enter
  \/ _wait_check
  \/ _cosmos_script_wait_implementation
  \/ _cosmos_script_wait_implementation_sleep

ResponseSpec == ResponseInit /\ [][ResponseNext]_vars

\* array_tolerance_process_args called on its own with the arguments of the
\* call: it returns [expected_value, tolerance] or raises the array-size error.
array_tolerance_process_args_call ==
  /\ pc = "call"
  /\ call.fn = "array_tolerance_process_args"
  /\ LET expected_value == IF call.expected_is_list THEN List(call.expected_list)
                           ELSE Scalar(call.expected)
         tolerance == IF call.tolerance_is_list THEN List(call.tolerance_list)
                      ELSE Scalar(call.tolerance)
         n == array_tolerance_process_args(call.array_size, expected_value, tolerance)
     IN IF n.err # "none"
          THEN Raise("ArraySizeError")
          ELSE /\ result' = << n.expected_value, n.tolerance >>
               /\ pc' = "done"
               /\ UNCHANGED << raised, log >>
  /\ UNCHANGED << call, otherVars, params, loopVars, wrapVars, sampleVars,
                  evalVars >>

NormalizerInit ==
  /\ call \in NormalizerCalls
  /\ satisfied_from = Unconstrained
  /\ Start

NormalizerNext == array_tolerance_process_args_call

NormalizerSpec == NormalizerInit /\ [][NormalizerNext]_vars

\* check_tolerance and the tolerance waits on an array item.  The list branch
\* of a tolerance wait does not get past line 171 / 282, so no poll loop and no
\* report follows.
VectorInit ==
  /\ call \in VectorCalls
  /\ satisfied_from = Unconstrained
  /\ Start

VectorNext ==
  \/ _check_tolerance
  \/ _wait_tolerance_enter
  \/ _wait_check_tolerance_enter

VectorSpec == VectorInit /\ [][VectorNext]_vars

\* The poll loops on their own, for what is claimed of every run of a loop:
\* one entry point of each kind that reaches a loop, in its compact form.
\* The interpreter keeps executing the loop's statements, hence the fairness.
PollCalls ==
  { c \in Calls :
      \/ c.fn = "wait_check" /\ c.nargs \in {2, 3}
      \/ c.fn = "wait_tolerance" /\ c.nargs \in {4, 5}
      \/ c.fn = "wait_expression" }

PollInit == Init /\ call \in PollCalls

LoopStep ==
  \/ _cosmos_script_wait_implementation
  \/ _cosmos_script_wait_implementation_sleep
  \/ cosmos_script_wait_implementation_expression
  \/ cosmos_script_wait_implementation_expression_sleep

PollNext ==
  \/ _wait_check_enter
  \/ _wait_check
  \/ _wait_tolerance_enter
  \/ _wait_tolerance
  \/ wait_expression_enter
  \/ wait_expression
  \/ LoopStep

FairPollSpec == PollInit /\ [][PollNext]_vars /\ WF_vars(LoopStep)

\* ------------------------------------------------------------------ claims
LoopPcs == {"poll", "sleep", "poll_expression", "sleep_expression"}
SleepPcs == {"sleep", "sleep_expression"}

\* The call entered a poll loop: it is in it, or the loop has returned, or an
\* evaluation inside it raised.
LoopEntered ==
  \/ pc \in LoopPcs \cup {"report"}
  \/ pc = "done" /\ call.fn \notin CheckFns /\ nEvals > 0

\* The poll loop returned and the wrapper reported its outcome.
Reported ==
  pc = "done" /\ call.fn \notin CheckFns /\ nEvals > 0 /\ raised # "EvalError"

\* The samples a wrapper takes before it enters the loop.
PreSamples ==
  IF call.fn \in WaitToleranceFns \cup WaitCheckToleranceFns \cup PacketFns
    THEN 1 ELSE 0

\* The samples the poll loop itself has taken.
LoopSamples ==
  IF call.fn \in ExpressionFns THEN 0 ELSE nSamples - PreSamples

\* The time since the poll loop was entered.
LoopElapsed == now - (end_time - timeout)

\* C1: a poll loop run with timeout = 0 performs exactly one sample+evaluate
\* cycle and never calls cosmos_script_sleep, whatever the predicate gives.
C1_ZeroTimeoutOneCycle ==
  (LoopEntered /\ timeout = 0) =>
    /\ pc \notin SleepPcs
    /\ nDelays = 0
    /\ nEvals <= 1
    /\ (pc \notin LoopPcs => nEvals = 1)
    /\ (call.fn \notin ExpressionFns => LoopSamples = nEvals)

C1_Witness ==
  /\ pc = "report"
  /\ call.fn = "check_expression"
  /\ timeout = 0
  /\ ~success
  /\ nEvals = 1
  /\ nDelays = 0

\* C2 as stated: against a predicate false on every sample, with
\* polling_rate <= timeout, the loop returns failure after an elapsed time in
\* [timeout, timeout + one sample+evaluate cost] that never exceeds
\* timeout + polling_rate.
C2_Original ==
  (pc = "report" /\ ~success /\ polling_rate <= timeout) =>
    /\ ~anyTrue
    /\ LoopElapsed >= timeout
    /\ LoopElapsed <= timeout + lastCost
    /\ LoopElapsed <= timeout + polling_rate

\* The elapsed time of a failed loop with polling_rate <= timeout lies in
\* [timeout, timeout + the cost of the last sample+evaluate].
C2_ElapsedBound ==
  (pc = "report" /\ ~success /\ polling_rate <= timeout) =>
    /\ ~anyTrue
    /\ LoopElapsed >= timeout
    /\ LoopElapsed <= timeout + lastCost
    /\ (lastCost <= polling_rate => LoopElapsed <= timeout + polling_rate)

\* C2 as amended: every poll loop returns; against a predicate false on every
\* sample, with polling_rate <= timeout, it returns failure after an elapsed
\* time in [timeout, timeout + the cost of the last sample+evaluate], which is
\* within timeout + polling_rate whenever that cost is at most polling_rate.
C2_Amended ==
  /\ [](C2_ElapsedBound)
  /\ [](pc \in LoopPcs => <>(pc \notin LoopPcs))

C2_Witness ==
  /\ pc = "report"
  /\ ~success
  /\ polling_rate <= timeout
  /\ nDelays >= 2
  /\ lastCost > 0
  /\ LoopElapsed = timeout + lastCost

\* C3: the duration handed to cosmos_script_sleep in a poll loop is
\* max(0, min(polling_rate - elapsedThisTick, deadline - now)): it is never
\* negative and a sleep started now never ends after the deadline, also when
\* the polling rate is larger than the timeout.
C3_SleepDuration ==
  pc \in SleepPcs =>
    /\ sleep_time = Max(0, Min(polling_rate - (now - work_start), end_time - now))
    /\ sleep_time >= 0
    /\ now + sleep_time <= end_time

C3_Witness ==
  /\ pc = "sleep"
  /\ polling_rate > timeout
  /\ sleep_time = end_time - now
  /\ sleep_time < polling_rate - (now - work_start)
  /\ sleep_time > 0

\* C5: a check-family call with a comparison samples the value exactly once;
\* it raises CheckError exactly when "value <comparison>" is false on that
\* sample, and when it is true it logs one info message and returns normally.
C5_CheckRaisesIffFalse ==
  (/\ pc = "done"
   /\ call.fn \in CheckFns
   /\ call.nargs \in {1, 4}
   /\ call.cmp \in GoodComparisons) =>
    /\ nSamples = 1
    /\ nEvals = 1
    /\ nDelays = 0
    /\ (raised = "CheckError") = ~EvalComparison(call.cmp, value)
    /\ (raised = "CheckError" => log = << >>)
    /\ (EvalComparison(call.cmp, value) => raised = "none" /\ log = << "INFO" >>)

C5_Witness ==
  /\ pc = "done"
  /\ call.fn = "check_raw"
  /\ call.nargs = 4
  /\ call.cmp = [op |-> "==", lit |-> 1]
  /\ value = 0
  /\ raised = "CheckError"

\* The entry points with WAIT semantics, on a scalar value.
WaitSemanticsFns ==
  WaitFns \cup WaitToleranceFns \cup {"wait_expression", "wait_packet"}

\* C6: under WAIT semantics a predicate still false when the poll loop ends
\* never raises CheckError: the call logs exactly one warning and returns, and
\* it logs an info message instead only when the loop succeeded.
C6_WaitWarnsAndReturns ==
  call.fn \in WaitSemanticsFns =>
    /\ raised # "CheckError"
    /\ (Reported =>
          /\ raised = "none"
          /\ success = anyTrue
          /\ log = IF anyTrue THEN << "INFO" >> ELSE << "WARNING" >>)

C6_Witness ==
  /\ pc = "done"
  /\ call.fn = "wait_packet"
  /\ ~anyTrue
  /\ nDelays >= 1
  /\ log = << "WARNING" >>
  /\ raised = "none"

\* The entry points with WAIT_CHECK semantics, on a scalar value.
WaitCheckSemanticsFns ==
  WaitCheckFns \cup WaitCheckToleranceFns
  \cup {"wait_check_expression", "wait_check_packet"}

\* C7: under WAIT_CHECK semantics no tick of the poll loop raises CheckError;
\* CheckError is raised, by the step that follows the loop's return, exactly
\* when the loop ended without a true evaluation, and a call with a true
\* evaluation returns normally.
C7_WaitCheckRaisesAfterLoop ==
  [][ call.fn \in WaitCheckSemanticsFns =>
        /\ (pc \in LoopPcs => raised' # "CheckError")
        /\ (raised' = "CheckError" => pc = "report" /\ ~success /\ ~anyTrue)
        /\ (pc = "report" /\ ~anyTrue => raised' = "CheckError")
        /\ (pc = "report" /\ anyTrue =>
              raised' = "none" /\ pc' = "done" /\ log' = << "INFO" >>) ]_vars

C7_Witness ==
  /\ pc = "done"
  /\ call.fn = "wait_check"
  /\ raised = "CheckError"
  /\ nEvals >= 2
  /\ nDelays >= 1

\* C8 as stated: every wait-family and wait_check-family entry point that
\* returns normally returns the elapsed time of the wait.
C8_ReturnsElapsed ==
  (/\ pc = "done"
   /\ raised = "none"
   /\ call.fn \in WaitSemanticsFns \cup WaitCheckSemanticsFns) =>
    result = Float(now - start_time)

\* The argument counts each family accepts.
AcceptedCounts(fn) ==
  CASE fn \in CheckFns -> {1, 4}
    [] fn \in WaitFns -> {0, 1, 2, 3, 5, 6}
    [] fn \in WaitCheckFns -> {2, 3, 5, 6}
    [] fn \in CheckToleranceFns -> {3, 5}
    [] fn \in WaitToleranceFns \cup WaitCheckToleranceFns -> {4, 5, 6, 7}
    [] OTHER -> ArgCounts

\* C9: a call whose argument count is not one its family accepts fails with
\* the argument-count error before anything is sampled, slept or logged, and
\* a call with an accepted count never fails with that error.
C9_ArgumentCounts ==
  pc # "call" =>
    /\ (raised = "ArgumentCountError") = (call.nargs \notin AcceptedCounts(call.fn))
    /\ (raised = "ArgumentCountError" =>
          /\ pc = "done"
          /\ nSamples = 0
          /\ nEvals = 0
          /\ nDelays = 0
          /\ now = 0
          /\ log = << >>)

C9_Witness ==
  /\ pc = "done"
  /\ call.fn = "wait_check_raw"
  /\ call.nargs = 4
  /\ raised = "ArgumentCountError"
  /\ nSamples = 0

\* C10: a scalar tolerance check passes exactly when
\* expected - |tolerance| <= value <= expected + |tolerance|, both ends
\* included; otherwise it raises CheckError; the sign of the tolerance
\* argument makes no difference.
C10_ToleranceInclusive ==
  (/\ pc = "done"
   /\ call.fn \in CheckToleranceFns
   /\ call.nargs \in {3, 5}) =>
    LET tol == IF call.tolerance < 0 THEN 0 - call.tolerance ELSE call.tolerance
        within == /\ call.expected - tol <= value
                  /\ value <= call.expected + tol
    IN /\ nSamples = 1
       /\ within => (raised = "none" /\ log = << "INFO" >>)
       /\ ~within => (raised = "CheckError" /\ log = << >>)

C10_Witness ==
  /\ pc = "done"
  /\ call.fn = "check_tolerance"
  /\ call.tolerance < 0
  /\ value = call.expected + call.tolerance
  /\ raised = "none"
  /\ log = << "INFO" >>

\* ------------------------------------------------------------ array items
\* The expected value and the tolerance magnitude of element i, read off the
\* arguments of the call.
ExpectedAt(i) ==
  IF call.expected_is_list THEN call.expected_list[i] ELSE call.expected

ToleranceAt(i) ==
  LET t == IF call.tolerance_is_list THEN call.tolerance_list[i]
           ELSE call.tolerance
  IN IF t < 0 THEN 0 - t ELSE t

ElementWithin(i) ==
  /\ ExpectedAt(i) - ToleranceAt(i) <= value[i]
  /\ value[i] <= ExpectedAt(i) + ToleranceAt(i)

\* The call is on an array item and its arguments fit it: a single tolerance,
\* and a single expected value or one per element.
ArrayArgumentsFit ==
  /\ call.value_is_list
  /\ ~call.tolerance_is_list
  /\ call.expected_is_list => Len(call.expected_list) = call.array_size

\* C11: check_tolerance on a list value of N elements bound-checks every
\* element and writes exactly one message line per element, marked within or
\* failed by that element alone (no stop at the first failure); it raises
\* CheckError exactly when some element is outside its inclusive bounds, and
\* when all are inside it logs the message at info level and returns.
C11_VectorCheckEveryElement ==
  (/\ pc = "done"
   /\ call.fn \in CheckToleranceFns
   /\ ArrayArgumentsFit) =>
    /\ nSamples = 1
    /\ Len(value) = call.array_size
    /\ Len(message) = call.array_size
    /\ \A i \in 1..call.array_size :
         message[i] = IF ElementWithin(i) THEN "within" ELSE "failed"
    /\ (raised = "CheckError") = (\E i \in 1..call.array_size : ~ElementWithin(i))
    /\ (raised = "CheckError" => log = << >>)
    /\ ((\A i \in 1..call.array_size : ElementWithin(i)) =>
          raised = "none" /\ log = << "INFO" >> /\ result = None)

C11_Witness ==
  /\ pc = "done"
  /\ call.fn = "check_tolerance"
  /\ ArrayArgumentsFit
  /\ call.array_size = 2
  /\ message = << "failed", "within" >>
  /\ raised = "CheckError"

\* C12 as stated: wait_tolerance / wait_tolerance_raw on a list value polls
\* until every element is within its bounds or the timeout elapses; it then
\* returns without raising, having logged a message of one line per element
\* (a warning, the failing elements marked failed, when the timeout elapsed
\* with some element out of bounds).
C12_VectorWaitReturns ==
  (/\ pc = "done"
   /\ call.fn \in WaitToleranceFns
   /\ ArrayArgumentsFit
   /\ call.array_size > 0) =>
    /\ raised = "none"
    /\ Len(message) = call.array_size
    /\ \A i \in 1..call.array_size :
         message[i] = IF ElementWithin(i) THEN "within" ELSE "failed"
    /\ log = IF \A i \in 1..call.array_size : ElementWithin(i)
               THEN << "INFO" >> ELSE << "WARNING" >>

\* ------------------------------------------- array_tolerance_process_args
\* array_tolerance_process_args returned, given single values for both
\* expected_value and tolerance.
NormalizedScalars ==
  /\ pc = "done"
  /\ call.fn = "array_tolerance_process_args"
  /\ ~call.expected_is_list
  /\ ~call.tolerance_is_list

\* C13 as stated: for every N >= 0, every single expected value e and single
\* tolerance t (negative included), array_tolerance_process_args(N, e, t, name)
\* returns two sequences of length N, the first all e, the second all |t|.
C13_Original ==
  NormalizedScalars =>
    /\ raised = "none"
    /\ Len(result) = 2
    /\ result[1] = [i \in 1..call.array_size |-> call.expected]
    /\ result[2] = [i \in 1..call.array_size |->
                      IF call.tolerance < 0 THEN 0 - call.tolerance
                      ELSE call.tolerance]

\* C13 as amended: for every N >= 0, every single expected value e and single
\* tolerance t, array_tolerance_process_args(N, e, t, name) returns two
\* sequences of length N, the first all e, the second all t with its sign kept.
C13_Amended ==
  NormalizedScalars =>
    /\ raised = "none"
    /\ Len(result) = 2
    /\ Len(result[1]) = call.array_size
    /\ Len(result[2]) = call.array_size
    /\ \A i \in 1..call.array_size :
         result[1][i] = call.expected /\ result[2][i] = call.tolerance

C13_Witness ==
  /\ NormalizedScalars
  /\ call.array_size = 2
  /\ call.tolerance < 0
  /\ result = << << call.expected, call.expected >>,
                 << call.tolerance, call.tolerance >> >>

\* C14: array_tolerance_process_args fails with the array-size error whenever
\* expected_value or tolerance is a list whose length differs from N, and
\* otherwise returns two sequences of length N, a list argument unchanged.
C14_ArraySizeLaw ==
  (pc = "done" /\ call.fn = "array_tolerance_process_args") =>
    LET badExpected == /\ call.expected_is_list
                       /\ Len(call.expected_list) # call.array_size
        badTolerance == /\ call.tolerance_is_list
                        /\ Len(call.tolerance_list) # call.array_size
    IN IF badExpected \/ badTolerance
         THEN raised = "ArraySizeError" /\ result = None
         ELSE /\ raised = "none"
              /\ Len(result) = 2
              /\ Len(result[1]) = call.array_size
              /\ Len(result[2]) = call.array_size
              /\ (call.expected_is_list => result[1] = call.expected_list)
              /\ (call.tolerance_is_list => result[2] = call.tolerance_list)

C14_Witness ==
  /\ pc = "done"
  /\ call.fn = "array_tolerance_process_args"
  /\ call.array_size = 2
  /\ ~call.expected_is_list
  /\ call.tolerance_is_list
  /\ Len(call.tolerance_list) = 1
  /\ raised = "ArraySizeError"

\* ------------------------------------------------------- evaluation errors
\* The comparison or expression text the call evaluates.
EvaluatedText ==
  IF call.fn \in CheckFns \cup ExpressionFns THEN call.cmp ELSE exp_to_eval.cmp

\* The step made one evaluation.
Evaluates == nEvals' = nEvals + 1

\* The evaluation of this step could not be carried out: the text is
\* malformed, or it does not apply to the value just sampled.  (What an
\* expression reads is not a sample, so for the expression entry points only
\* the malformed text is told from the state.)
EvaluationFails ==
  /\ Evaluates
  /\ \/ EvaluatedText.op = "bad"
     \/ /\ call.fn \notin ExpressionFns
        /\ exp_to_eval.kind = "comparison"
        /\ EvalRaises(EvaluatedText, value')

\* C15: an evaluation that fails against the sampled value leaves the call at
\* once as an error: nothing is logged and nothing returned, the failure is not
\* taken as a false predicate (no delay, no failed outcome follows), and after
\* it the call makes no step at all; no error of this kind arises otherwise.
C15_EvalErrorSurfaces ==
  [][ /\ raised # "EvalError"
      /\ (EvaluationFails =>
            /\ raised' = "EvalError"
            /\ pc' = "done"
            /\ log' = << >>
            /\ result' = None
            /\ success' = success
            /\ nDelays' = nDelays
            /\ nSamples' <= nSamples + 1)
      /\ (raised' = "EvalError" =>
            /\ Evaluates
            /\ EvaluatedText.op \in {"bad", "** -1 >="}
            /\ call.fn \notin ExpressionFns => EvaluationFails) ]_vars

C15_Witness ==
  /\ pc = "done"
  /\ call.fn = "wait"
  /\ call.cmp = InverseComparison
  /\ raised = "EvalError"
  /\ value = 0
  /\ nEvals >= 2
  /\ nDelays >= 1
  /\ log = << >>

\* ------------------------------------------------------- bounded response
\* The poll loop has returned, for an item that satisfies the predicate from
\* satisfied_from on.
ResponseOver == satisfied_from # Unconstrained /\ pc \in {"report", "done"}

\* C16 as stated: if the value satisfies the predicate from a time t before
\* the deadline on, the loop returns success no later than t + polling_rate +
\* one sample+evaluate cost, and wait_check returns without raising.
C16_Original ==
  (ResponseOver /\ satisfied_from < end_time) =>
    /\ success
    /\ now <= satisfied_from + polling_rate + lastCost
    /\ (pc = "done" => raised = "none")

\* C16 as amended: if the value satisfies the predicate from a time t on, a
\* sample begun at or after t succeeds and ends the loop, so the loop fails
\* only when its last sample began before t; and when no sample+evaluate
\* costs more than polling_rate and t is at least one such cost before the
\* deadline, the loop returns success no later than t + polling_rate + one
\* sample+evaluate cost and wait_check returns without raising.
C16_Amended ==
  ResponseOver =>
    /\ (~success => work_start < satisfied_from)
    /\ (success => now = work_start + lastCost)
    /\ (MaxCost <= polling_rate /\ satisfied_from + MaxCost <= end_time) =>
         /\ success
         /\ now <= satisfied_from + polling_rate + lastCost
         /\ (pc = "done" => raised = "none" /\ log = << "INFO" >>)

C16_Witness ==
  /\ ResponseOver
  /\ pc = "done"
  /\ MaxCost <= polling_rate
  /\ satisfied_from > 0
  /\ satisfied_from + MaxCost <= end_time
  /\ nEvals >= 2
  /\ nDelays >= 1
  /\ lastCost > 0
  /\ now = satisfied_from + polling_rate + lastCost - 1
  /\ raised = "none"

\* -------------------------------------------------- the loop's outcome
PollPcs == {"poll", "poll_expression"}

\* The value the loop holds satisfies the text it evaluates.
ValueSatisfies ==
  IF exp_to_eval.kind = "comparison"
    THEN EvalComparison(exp_to_eval.cmp, value')
    ELSE /\ exp_to_eval.e - exp_to_eval.t <= value'
         /\ value' <= exp_to_eval.e + exp_to_eval.t

\* C17: a tick of the poll loop raises nothing on a false predicate; the first
\* true evaluation ends the loop at once as a success whose value is the
\* sample that satisfied the predicate; the loop ends as a failure only at or
\* after the deadline, with the value of the sample just taken; and once the
\* loop has returned nothing more is sampled, evaluated or slept.
C17_LoopOutcome ==
  [][ /\ (pc \in PollPcs =>
            /\ raised' \in {"none", "EvalError"}
            /\ (raised' = "none" => pc' \in SleepPcs \cup {"report"})
            /\ (anyTrue' =>
                  /\ pc' = "report"
                  /\ success'
                  /\ nEvals' = nEvals + 1
                  /\ nDelays' = nDelays
                  /\ raised' = "none")
            /\ (pc' = "report" /\ success' =>
                  /\ anyTrue'
                  /\ now' = work_start' + lastCost'
                  /\ pc = "poll" => (nSamples' = nSamples + 1 /\ ValueSatisfies))
            /\ (pc' = "report" /\ ~success' =>
                  /\ ~anyTrue'
                  /\ now' >= end_time
                  /\ pc = "poll" => (nSamples' = nSamples + 1 /\ ~ValueSatisfies)))
      /\ (pc \in SleepPcs =>
            /\ raised' = "none"
            /\ UNCHANGED << value, nSamples, nEvals, success >>)
      /\ (pc = "report" =>
            UNCHANGED << value, now, success, nSamples, nEvals, nDelays >>) ]_vars

C17_Witness ==
  /\ pc = "report"
  /\ call.fn = "wait_raw"
  /\ success
  /\ nEvals >= 3
  /\ nDelays = nEvals - 1
  /\ value = 1
  /\ exp_to_eval.cmp = [op |-> "==", lit |-> 1]
  /\ now < end_time

\* --------------------------------------------------------- the deadline
\* C19: the deadline is set once, when the loop is entered, to the time of
\* entry + timeout; no step of the loop or of the report changes it; and a
\* tick whose evaluation is false ends the loop exactly when the clock has
\* reached that deadline, however much or little has been slept.
C19_DeadlineFixed ==
  [][ /\ (pc = "call" /\ pc' \in LoopPcs => end_time' = now' + timeout')
      /\ (pc \in LoopPcs \cup {"report"} =>
            end_time' = end_time /\ timeout' = timeout)
      /\ (pc \in PollPcs /\ raised' = "none" /\ ~anyTrue' =>
            (pc' = "report") = (now' >= end_time)) ]_vars

C19_Witness ==
  /\ pc = "report"
  /\ ~success
  /\ call.fn = "wait_check_tolerance"
  /\ nDelays >= 2
  /\ nDelays * polling_rate < timeout
  /\ end_time = start_time + timeout + 1
  /\ now > end_time

\* ------------------------------------------------------------ the viewer
\* C18 as stated: write_tlm_viewer retries only after a connection failure,
\* launching the viewer once per failed attempt, and makes at most 60 write
\* attempts; after the 60th consecutive connection failure it fails with the
\* startup error; a write that succeeds ends the loop with no further attempt.
C18_RetryBound ==
  /\ nWrites <= max_retries
  /\ nLaunches = retry_count
  /\ (pc = "write" => nWrites = retry_count)
  /\ (pc = "done" /\ raised = "none" => nWrites = retry_count + 1)
  /\ (pc = "done" /\ retry_count = max_retries /\ nLaunches = max_retries
        /\ raised # "OSError" =>
        raised = "StartupError")

\* C20 as stated: with the tolerance given as a list of N entries (negative
\* ones included) to check_tolerance or wait_tolerance on a value of N
\* elements, the call does not fail on the sign or the shape of the tolerance,
\* and element i is checked against expected[i] - |tolerance[i]| and
\* expected[i] + |tolerance[i]|.
C20_VectorToleranceBounds ==
  (/\ pc = "done"
   /\ call.fn \in CheckToleranceFns \cup WaitToleranceFns
   /\ call.value_is_list
   /\ call.tolerance_is_list
   /\ call.array_size > 0
   /\ Len(call.tolerance_list) = call.array_size
   /\ call.expected_is_list => Len(call.expected_list) = call.array_size) =>
    /\ raised # "TypeError"
    /\ nSamples >= 1
    /\ (call.fn \in CheckToleranceFns =>
          /\ Len(message) = call.array_size
          /\ \A i \in 1..call.array_size :
               message[i] = IF ElementWithin(i) THEN "within" ELSE "failed"
          /\ (raised = "CheckError") =
               (\E i \in 1..call.array_size : ~ElementWithin(i)))

\* ------------------------------------------------- the argument-count text
\* C21 as stated: the argument-count error raised for a malformed call names
\* the public entry point that was called (the _raw, _formatted and
\* _with_units variants included) and gives the number of arguments received.
C21_ErrorNamesEntryPoint ==
  raised = "ArgumentCountError" =>
    /\ error_message.function_name = call.fn
    /\ error_message.length = call.nargs

\* --------------------------------------------------------- the polling rate
\* The call carries a polling rate: it has the longer form of its call shape.
RateSupplied ==
  CASE call.fn \in WaitFns \cup WaitCheckFns -> call.nargs \in {3, 6}
    [] call.fn \in WaitToleranceFns \cup WaitCheckToleranceFns ->
         call.nargs \in {5, 7}
    [] call.fn \in {"wait_expression", "wait_check_expression"} -> call.nargs = 3
    [] call.fn \in PacketFns -> call.nargs = 5
    [] OTHER -> FALSE

\* The rate the loop of this call is to run with.
RateToUse == IF RateSupplied THEN call.rate ELSE DEFAULT_TLM_POLLING_RATE

\* C22: in every operation family and call shape the poll loop runs with
\* DEFAULT_TLM_POLLING_RATE (0.25) when the call omits the polling rate and
\* with exactly the supplied value otherwise: that is the rate the loop holds
\* from its entry on, and the one each of its sleeps is computed from.
C22_PollingRate ==
  LoopEntered =>
    /\ polling_rate = RateToUse
    /\ (pc \in SleepPcs =>
          sleep_time = Max(0, Min(RateToUse - (now - work_start), end_time - now)))

C22_Witness ==
  /\ pc = "sleep"
  /\ call.fn = "wait_check_tolerance_raw"
  /\ call.nargs = 6
  /\ ~RateSupplied
  /\ polling_rate = DEFAULT_TLM_POLLING_RATE
  /\ now = work_start
  /\ sleep_time = DEFAULT_TLM_POLLING_RATE
  /\ nDelays >= 1

\* ------------------------------------------------------ the bare check
\* C23 as stated: check, check_raw, check_formatted or check_with_units given
\* an empty comparison samples the value once, logs it at info level and
\* returns normally without raising.
C23_EmptyComparisonReports ==
  (/\ pc = "done"
   /\ call.fn \in CheckFns
   /\ call.nargs \in {1, 4}
   /\ call.cmp = EmptyComparison) =>
    /\ nSamples = 1
    /\ nEvals = 0
    /\ raised = "none"
    /\ log = << "INFO" >>
    /\ result = None

\* ---------------------------------------------------------- packet counts
\* initial_count + num_packets, the count the packet wait polls for
PacketThreshold == initial_count + call.num_packets

\* C24: _wait_packet samples RECEIVED_COUNT once before polling and polls for
\* ">= initial_count + num_packets"; neither initial_count nor the text polled
\* for changes afterwards; a tick of the loop ends it as a success exactly
\* when its sample is >= that threshold; after a success the call logs at info
\* level and returns the elapsed time; after a failure wait_check_packet
\* raises CheckError and wait_packet logs a warning and returns the elapsed
\* time.
C24_PacketWait ==
  [][ call.fn \in PacketFns =>
        /\ (pc = "call" =>
              /\ nSamples' = 1
              /\ nEvals' = 0
              /\ initial_count' = value'
              /\ exp_to_eval' = cosmos_script_wait_implementation(
                                  [op |-> ">=",
                                   lit |-> value' + call.num_packets])
              /\ pc' = "poll")
        /\ (pc # "call" => UNCHANGED << initial_count, exp_to_eval >>)
        /\ (pc = "poll" =>
              /\ ~anyTrue
              /\ nSamples' = nSamples + 1
              /\ raised' = "none"
              /\ (pc' = "report" /\ success') = (value' >= PacketThreshold)
              /\ anyTrue' = (value' >= PacketThreshold))
        /\ (pc = "report" =>
              /\ success = anyTrue
              /\ pc' = "done"
              /\ IF success
                   THEN /\ raised' = "none"
                        /\ log' = << "INFO" >>
                        /\ result' = Float(now - start_time)
                   ELSE IF call.fn = "wait_check_packet"
                     THEN raised' = "CheckError" /\ log' = << >>
                     ELSE /\ raised' = "none"
                          /\ log' = << "WARNING" >>
                          /\ result' = Float(now - start_time)) ]_vars

C24_Witness ==
  /\ pc = "done"
  /\ call.fn = "wait_packet"
  /\ initial_count = 1
  /\ nSamples >= 3
  /\ nDelays >= 1
  /\ value = PacketThreshold
  /\ log = << "INFO" >>
  /\ result = Float(now - start_time)

\* ------------------------------------------- tolerance waits at timeout 0
\* A tolerance wait called with timeout = 0 and an accepted argument count.
ZeroTimeoutToleranceWait ==
  /\ call.fn \in WaitToleranceFns \cup WaitCheckToleranceFns
  /\ call.nargs \in {4, 5, 6, 7}
  /\ call.timeout = 0

\* C25 as stated: wait_tolerance, wait_tolerance_raw, wait_check_tolerance or
\* wait_check_tolerance_raw called with timeout = 0 takes exactly one sample
\* of the value from the provider during the whole call and makes no delay.
C25_Original ==
  (ZeroTimeoutToleranceWait /\ pc = "done") =>
    /\ nSamples = 1
    /\ nDelays = 0

\* C25 as amended: a tolerance wait called with timeout = 0 on a scalar item
\* takes exactly two samples of the value during the whole call, one before
\* the poll loop (the one that tells a list value from a scalar) and one in
\* the loop's single sample+evaluate cycle, and makes no delay.
C25_Amended ==
  ZeroTimeoutToleranceWait =>
    /\ pc \notin SleepPcs
    /\ nDelays = 0
    /\ (pc = "poll" => nSamples = 1 /\ nEvals = 0)
    /\ (pc \in {"report", "done"} =>
          /\ nSamples = 2
          /\ LoopSamples = 1
          /\ nEvals = 1)

C25_Witness ==
  /\ ZeroTimeoutToleranceWait
  /\ pc = "done"
  /\ call.fn = "wait_check_tolerance"
  /\ raised = "CheckError"
  /\ nSamples = 2
  /\ nEvals = 1
  /\ nDelays = 0
  /\ lastCost > 0

\* ------------------------------------------------------------ cancellation
\* The durations the model hands to cosmos_script_sleep.
SleepTimes == 0..Max(MaxTimeout, Max(MaxPollingRate, OneSecond))

\* C26 as stated: the delay primitive cosmos_script_sleep can report
\* cancellation, that is, for some sleep it returns true, so that the
\* canceled branch of the poll loop can be taken: where a poll loop has come
\* to a delay, there is a sleep for which the primitive returns true.
C26_SleepCanReportCancel ==
  pc \in SleepPcs => \E d \in SleepTimes : cosmos_script_sleep(d)

\* ------------------------------------------------------------ alternation
\* C27: within one poll loop sampling, evaluation and delay strictly
\* alternate.  A tick makes one sample+evaluate (one evaluation, for an
\* expression) and no delay, and goes on to a delay only after a false
\* evaluation; a delay is one call of cosmos_script_sleep with no sample or
\* evaluation in it, and is followed by a tick, never by another delay;
\* nothing else in a call that polls delays; and when the loop ends the number
\* of delays is the number of samples minus one.
C27_StrictAlternation ==
  [][ /\ (pc \in PollPcs =>
            /\ nEvals' = nEvals + 1
            /\ nDelays' = nDelays
            /\ nDelays = nEvals
            /\ (pc = "poll" => nSamples' = nSamples + 1)
            /\ (pc = "poll_expression" => nSamples' = nSamples)
            /\ (pc' \in SleepPcs => ~anyTrue' /\ raised' = "none"))
      /\ (pc \in SleepPcs =>
            /\ nDelays' = nDelays + 1
            /\ nEvals' = nEvals
            /\ nSamples' = nSamples
            /\ pc' \in PollPcs)
      /\ (pc \notin SleepPcs \cup {"call", "input"} => nDelays' = nDelays)
      /\ (pc \in LoopPcs /\ pc' = "report" =>
            /\ nDelays' = nEvals' - 1
            /\ (call.fn \notin ExpressionFns => nDelays' = LoopSamples' - 1)) ]_vars

C27_Witness ==
  /\ pc = "report"
  /\ call.fn = "wait_tolerance_raw"
  /\ ~success
  /\ LoopSamples = 3
  /\ nEvals = 3
  /\ nDelays = 2

\* ------------------------------------------------- the viewer connection
\* C28 as stated: write_tlm_viewer releases its viewer connection on every
\* exit path: tlm_viewer.disconnect() has been called when the call returns or
\* raises, whether the write succeeded, failed with a non-connection error,
\* or failed after the retry bound was exhausted.
C28_DisconnectsOnEveryExit ==
  (/\ pc = "done"
   /\ call.fn \in ViewerFns
   /\ \/ raised = "none"
      \/ raised = "Exception"
      \/ retry_count = max_retries /\ raised = startup_failure) =>
    disconnected

====
